---- MODULE Spec2Model ----
(***************************************************************************)
(* Model of the clinical alert engine: AlertService                        *)
(* (src/app/services/alert_service.py) and the alert routes                *)
(* (src/app/api/routes/alerts.py).                                         *)
(*                                                                         *)
(* Scheduling.  The service runs on one asyncio event loop.  A coroutine   *)
(* keeps the loop until it really suspends.  DatabaseManager.execute_query *)
(* (src/app/database/connection.py:166-176) contains no await, so awaiting *)
(* it never yields; the suspension points are asyncio.sleep and the await  *)
(* of a coroutine subscriber callback.  The variable cur holds the task    *)
(* that owns the loop (NoTask when every task is suspended or idle); a     *)
(* task takes a step only when cur lets it.                                *)
(*                                                                         *)
(* Time is counted in minutes; the clock advances in steps of TickMinutes  *)
(* while no task owns the loop.                                            *)
(***************************************************************************)
EXTENDS Integers, Sequences, FiniteSets, TLC

VARIABLES
    now,                \* datetime.utcnow(), in minutes
    active_alerts,      \* self.active_alerts: cooldown key -> last marked time
    alerts,             \* the rows of table alerts, in id order
    alert_subscribers,  \* self.alert_subscribers: list of callbacks
    received,           \* per callback, the alert ids it was invoked with
    task,               \* per task, its position and locals
    cur,                \* the task that owns the event loop, or NoTask
    response,           \* the answer of the last route call
    running,            \* self.running
    monitors,           \* the background tasks start_monitoring has created
    lifecycle           \* history of the start and stop calls and of the polls

vars == <<now, active_alerts, alerts, alert_subscribers, received, task, cur, response,
          running, monitors, lifecycle>>

\* the state of the monitoring loops
engine == <<running, monitors, lifecycle>>

----------------------------------------------------------------------------
(* Bounds of the model *)

MaxTicks == 2
TickMinutes == 60
MaxAlerts == 2
MaxBatch == 2
MaxSubscribers == 2
MaxStarts == 2

----------------------------------------------------------------------------
(* Values *)

\* Python's None in a numeric field (every modelled number is >= 0)
None == 0 - 1

NoTask == "no_task"

\* A string is modelled as a sequence of fragments; ":" is a fragment of its own.
P1 == <<"P1">>
P2 == <<"P2">>
EmptyStr == << >>

\* data.get(key, default)
Get(data, key, default) == IF key \in DOMAIN data THEN data[key] ELSE default

\* Python truthiness of a string: the empty string is falsy
Truthy(s) == s # EmptyStr

\* class AlertType
RISK_THRESHOLD == "risk_threshold"
LAB_ABNORMAL == "lab_abnormal"
VITAL_CRITICAL == "vital_critical"

\* class RiskLevel
MEDIUM == "medium"
HIGH == "high"
CRITICAL == "critical"

\* class AlertStatus
ACTIVE == "active"
ACKNOWLEDGED == "acknowledged"
RESOLVED == "resolved"

\* settings.risk_threshold_high = 0.8, in hundredths (risk scores are hundredths)
risk_threshold_high == 80

----------------------------------------------------------------------------
(* The rule set: AlertService._initialize_alert_rules *)

\* condition of high_risk_readmission; "raise" is the TypeError of None >= 0.8
CondHighRisk(data) ==
    IF Get(data, "risk_type", "none") # "readmission" THEN "false"
    ELSE IF Get(data, "risk_score", 0) = None THEN "raise"
    ELSE IF Get(data, "risk_score", 0) >= risk_threshold_high THEN "true"
    ELSE "false"

\* condition of critical_vitals: an or-chain evaluated left to right
CondCriticalVitals(data) ==
    LET sbp == Get(data, "systolic_bp", 0)
        hr  == Get(data, "heart_rate", 0)
        o2  == Get(data, "oxygen_saturation", 100)
    IN  IF sbp = None THEN "raise"
        ELSE IF sbp > 180 \/ sbp < 90 THEN "true"
        ELSE IF hr = None THEN "raise"
        ELSE IF hr > 120 THEN "true"
        ELSE IF o2 = None THEN "raise"
        ELSE IF o2 < 90 THEN "true"
        ELSE "false"

\* condition of abnormal_labs
CondAbnormalLabs(data) ==
    IF Get(data, "is_abnormal", FALSE) THEN "true" ELSE "false"

\* self.alert_rules, in the order they are appended
alert_rules ==
    << [rule_id |-> "high_risk_readmission", alert_type |-> RISK_THRESHOLD,
        severity |-> HIGH, cooldown_minutes |-> 120,
        fields |-> {"patient_id", "risk_score"}],
       [rule_id |-> "critical_vitals", alert_type |-> VITAL_CRITICAL,
        severity |-> CRITICAL, cooldown_minutes |-> 30,
        fields |-> {"patient_id"}],
       [rule_id |-> "abnormal_labs", alert_type |-> LAB_ABNORMAL,
        severity |-> MEDIUM, cooldown_minutes |-> 60,
        fields |-> {"test_name", "value", "unit", "patient_id"}] >>

RuleIdx == 1..Len(alert_rules)

\* rule.condition(data)
Condition(ri, data) ==
    CASE alert_rules[ri].rule_id = "high_risk_readmission" -> CondHighRisk(data)
      [] alert_rules[ri].rule_id = "critical_vitals" -> CondCriticalVitals(data)
      [] alert_rules[ri].rule_id = "abnormal_labs" -> CondAbnormalLabs(data)

\* rule.message_template.format(**data): a KeyError when the template names a
\* field the event lacks; otherwise the template with the fields filled in
RenderFails(ri, data) == ~(alert_rules[ri].fields \subseteq DOMAIN data)

Render(ri, data) ==
    [template |-> alert_rules[ri].rule_id,
     args |-> [f \in alert_rules[ri].fields |-> data[f]]]

\* JsonDumpsFails for a json.dumps that can encode every value
JsonDumpsNever(data) == FALSE

\* json.dumps(data): a TypeError when a value is a datetime object, which is
\* what the pollers put under "timestamp"
JsonDumpsFails(data) == "timestamp" \in DOMAIN data

\* cooldown_key without the rule id: one key per subject
SubjectKey(rule_id, patient_id) == patient_id

\* cooldown_key = f"{rule.rule_id}:{patient_id}"
cooldown_key(rule_id, patient_id) == <<rule_id, ":">> \o patient_id

\* OnCooldown with the check left out: no pair is ever on cooldown
OnCooldownNever(aa, key, cooldown_minutes, t) == FALSE

\* OnCooldown with the comparison turned round
OnCooldownInverted(aa, key, cooldown_minutes, t) ==
    key \in DOMAIN aa /\ t - aa[key] > cooldown_minutes

\* cooldown_key in self.active_alerts and utcnow() - last_alert < timedelta(minutes=...)
OnCooldown(aa, key, cooldown_minutes, t) ==
    key \in DOMAIN aa /\ t - aa[key] < cooldown_minutes

\* self.active_alerts[cooldown_key] = datetime.utcnow()
Mark(aa, key, t) ==
    [k \in DOMAIN aa \cup {key} |-> IF k = key THEN t ELSE aa[k]]

----------------------------------------------------------------------------
(* Rows and events *)

\* f"alert_service:{rule.rule_id}"
TriggeredBy(rule_id) == <<"alert_service", ":", rule_id>>

\* A row of table alerts as INSERT leaves it: status defaults to 'active', the
\* acknowledgement and resolution columns are NULL
AlertRow(id, patient_id, alert_type, severity, message, triggered_by, t) ==
    [id |-> id, patient_id |-> patient_id, alert_type |-> alert_type,
     severity |-> severity, message |-> message, triggered_by |-> triggered_by,
     status |-> ACTIVE, created_at |-> t, acknowledged_at |-> None,
     acknowledged_by |-> "none", resolved_at |-> None]

\* x or 0
OrZero(x) == IF x = None \/ x = 0 THEN 0 ELSE x

\* x or 100
OrHundred(x) == IF x = None \/ x = 0 THEN 100 ELSE x

\* the dict _monitor_risk_predictions builds from a row
RiskEvent(row) ==
    [patient_id |-> row[1], risk_type |-> row[2], risk_score |-> row[3],
     risk_level |-> row[4], timestamp |-> row[5]]

\* the dict _monitor_vital_signs builds from a row
VitalEvent(row) ==
    [patient_id |-> row[1], systolic_bp |-> OrZero(row[2]),
     diastolic_bp |-> OrZero(row[3]), heart_rate |-> OrZero(row[4]),
     oxygen_saturation |-> OrHundred(row[5]), timestamp |-> row[6]]

\* the dict _monitor_lab_results builds from a row
LabEvent(row) ==
    [patient_id |-> row[1], test_name |-> row[2], value |-> row[3],
     unit |-> row[4], is_abnormal |-> row[5], timestamp |-> row[6]]

\* Rows the three queries can return at time t (risk_level IN ('high','critical');
\* is_abnormal = true; the vital-sign columns are nullable)
RiskRows(t) == {<<P1, "readmission", 85, "high", t>>,
                <<P1, "mortality", 90, "critical", t>>}

VitalRows(t) == {<<P1, 190, 95, 80, 97, t>>,
                 <<P1, 150, 85, 80, 97, t>>,
                 <<P1, None, None, None, None, t>>}

LabRows(t) == {<<P1, "glucose", 250, "mg/dL", TRUE, t>>}

PollerEvents(t) ==
    {RiskEvent(r) : r \in RiskRows(t)} \cup {VitalEvent(r) : r \in VitalRows(t)}
        \cup {LabEvent(r) : r \in LabRows(t)}

\* Dicts handed to _evaluate_alert_rules by a direct caller (no timestamp)
DirectEvents ==
    { [patient_id |-> P1, risk_type |-> "readmission", risk_score |-> 85],
      [patient_id |-> P1, risk_type |-> "readmission", risk_score |-> None],
      [patient_id |-> P1, systolic_bp |-> 190],
      [patient_id |-> P2, systolic_bp |-> 190],
      [patient_id |-> P1, systolic_bp |-> 150],
      [patient_id |-> P1, systolic_bp |-> 120, is_abnormal |-> TRUE],
      [patient_id |-> P1, systolic_bp |-> None, is_abnormal |-> TRUE,
       test_name |-> "glucose", value |-> 250, unit |-> "mg/dL"],
      [patient_id |-> P2, systolic_bp |-> None, is_abnormal |-> TRUE,
       test_name |-> "glucose", value |-> 250, unit |-> "mg/dL"],
      [patient_id |-> EmptyStr, systolic_bp |-> 190],
      [systolic_bp |-> 190] }

Events(t) == DirectEvents \cup PollerEvents(t)

----------------------------------------------------------------------------
(* Subscribers *)

\* cb_sync returns, cb_raise raises, cb_async is a coroutine function whose
\* await suspends the publishing task
Callbacks == {"cb_sync", "cb_raise", "cb_async"}

\* asyncio.iscoroutinefunction(callback)
IsCoroutine(cb) == cb = "cb_async"

----------------------------------------------------------------------------
(* Tasks *)

Tasks == {"t1", "t2"}

IdleTask ==
    [pc |-> "idle", n |-> 0, ei |-> 0, data |-> << >>, ri |-> 0,
     outcome |-> << >>, errs |-> 0, ci |-> 0, aid |-> 0, origin |-> "none",
     result |-> "none", raised |-> FALSE,
     \* history: the subscriber list when the publish started, and whether it
     \* was changed since
     snap |-> << >>, mutated |-> FALSE]

CanRun(t) == cur = NoTask \/ cur = t

----------------------------------------------------------------------------
(* Control flow of _evaluate_alert_rules over a batch of events *)

\* the caller's loop: the next event of the batch, or the end of the batch
NextEvent(tr) ==
    IF tr.ei < tr.n THEN [tr EXCEPT !.pc = "enter", !.ri = 0]
    ELSE [tr EXCEPT !.pc = "done", !.ri = 0]

\* for rule in self.alert_rules: the next rule, or return to the caller
NextRule(tr, result) ==
    LET logged == [tr EXCEPT !.outcome = Append(@, result)]
    IN  IF tr.ri < Len(alert_rules)
        THEN [logged EXCEPT !.pc = "rule", !.ri = @ + 1]
        ELSE NextEvent(logged)

\* RuleErrorHandler without the try inside the loop: the error ends the
\* evaluation and reaches the caller
RuleErrorPropagates(tr) == [tr EXCEPT !.pc = "done", !.raised = TRUE]

\* except Exception in the rule loop: the error is logged and the loop goes on
RuleErrorHandler(tr) == NextRule([tr EXCEPT !.errs = @ + 1], "error")

\* SubscriberErrorHandler without the try inside the loop: the error ends the
\* delivery and is caught by the except of the calling function
SubscriberErrorPropagates(tr) ==
    IF tr.origin = "manual" THEN [tr EXCEPT !.pc = "done", !.result = "false"]
    ELSE [tr EXCEPT !.ci = Len(alert_subscribers) + 1]

\* except Exception in _notify_subscribers: logged, the loop goes on
SubscriberErrorHandler(tr) == [tr EXCEPT !.ci = @ + 1]

\* CooldownAfterPublish with the manual trigger wiping the cooldown map
CooldownClearedByManual(aa, tr, t) ==
    IF tr.origin = "rule"
    THEN Mark(aa, cooldown_key(alert_rules[tr.ri].rule_id, tr.data.patient_id), t)
    ELSE << >>

\* self.active_alerts once _notify_subscribers has returned: _create_alert
\* returns to line 260, which marks the cooldown of the rule;
\* trigger_manual_alert goes on to return True and never touches the map
CooldownAfterPublish(aa, tr, t) ==
    IF tr.origin = "rule"
    THEN Mark(aa, cooldown_key(alert_rules[tr.ri].rule_id, tr.data.patient_id), t)
    ELSE aa

\* ManualInsertErrorHandler with the failed INSERT ignored: the function goes
\* on to notify the subscribers of an alert that was never stored
ManualInsertErrorIgnored(tr) ==
    [tr EXCEPT !.pc = "notify", !.ci = 1, !.aid = Len(alerts) + 1,
               !.origin = "manual"]

\* except Exception in trigger_manual_alert, lines 392-394: return False
ManualInsertErrorHandler(tr) ==
    [tr EXCEPT !.pc = "done", !.origin = "manual", !.result = "false"]

\* A caller starts evaluating a batch of n events, one after another
Submit(t, n) ==
    /\ cur = NoTask
    /\ task[t].pc = "idle"
    /\ task' = [task EXCEPT ![t] = [IdleTask EXCEPT !.pc = "enter", !.n = n]]
    /\ cur' = t
    /\ UNCHANGED <<now, active_alerts, alerts, alert_subscribers, received, response, engine>>

\* _evaluate_alert_rules, lines 242-244: an event without patient id is skipped
EvalEnter(t, data) ==
    /\ CanRun(t)
    /\ task[t].pc = "enter"
    /\ LET tr == [task[t] EXCEPT !.ei = @ + 1, !.data = data, !.outcome = << >>]
       IN  task' = [task EXCEPT ![t] =
                IF Truthy(Get(data, "patient_id", EmptyStr))
                THEN [tr EXCEPT !.pc = "rule", !.ri = 1]
                ELSE NextEvent(tr)]
    /\ cur' = t
    /\ UNCHANGED <<now, active_alerts, alerts, alert_subscribers, received, response, engine>>

\* What makes _create_alert fail, in the order the function runs: the format
\* of line 269, json.dumps of line 285, then the INSERT itself
CreateError(ri, data) ==
    IF RenderFails(ri, data) THEN "render_error"
    ELSE IF JsonDumpsFails(data) THEN "json_error"
    ELSE "storage_error"

\* One iteration of the rule loop, lines 246-263, with _create_alert up to its
\* INSERT (lines 267-288).  inserted: whether the storage executes the INSERT.
EvalRule(t, inserted) ==
    /\ CanRun(t)
    /\ task[t].pc = "rule"
    /\ LET tr   == task[t]
           data == tr.data
           rule == alert_rules[tr.ri]
           key  == cooldown_key(rule.rule_id, data.patient_id)
           id   == Len(alerts) + 1
       IN  IF OnCooldown(active_alerts, key, rule.cooldown_minutes, now)
           THEN /\ task' = [task EXCEPT ![t] = NextRule(tr, "suppressed")]
                /\ UNCHANGED <<active_alerts, alerts>>
           ELSE IF Condition(tr.ri, data) = "raise"
           THEN /\ task' = [task EXCEPT ![t] = RuleErrorHandler(tr)]
                /\ UNCHANGED <<active_alerts, alerts>>
           ELSE IF Condition(tr.ri, data) = "false"
           THEN /\ task' = [task EXCEPT ![t] = NextRule(tr, "nomatch")]
                /\ UNCHANGED <<active_alerts, alerts>>
           ELSE IF RenderFails(tr.ri, data) \/ JsonDumpsFails(data) \/ ~inserted
           THEN \* except Exception in _create_alert; line 260 then marks
                /\ task' = [task EXCEPT ![t] = NextRule(tr, CreateError(tr.ri, data))]
                /\ active_alerts' = Mark(active_alerts, key, now)
                /\ UNCHANGED alerts
           ELSE /\ Len(alerts) < MaxAlerts
                /\ alerts' = Append(alerts,
                       AlertRow(id, data.patient_id, rule.alert_type, rule.severity,
                                Render(tr.ri, data), TriggeredBy(rule.rule_id), now))
                /\ task' = [task EXCEPT ![t] =
                       [tr EXCEPT !.pc = "notify", !.ci = 1, !.aid = id,
                                  !.origin = "rule", !.snap = alert_subscribers,
                                  !.mutated = FALSE]]
                /\ UNCHANGED active_alerts
    /\ cur' = t
    /\ UNCHANGED <<now, alert_subscribers, received, response, engine>>

\* One iteration of the loop of _notify_subscribers, lines 345-352, or its end:
\* the return to _create_alert and to line 260, which marks the cooldown
Notify(t) ==
    /\ CanRun(t)
    /\ task[t].pc = "notify"
    /\ LET tr == task[t]
       IN  IF tr.ci > Len(alert_subscribers)
           THEN /\ active_alerts' = CooldownAfterPublish(active_alerts, tr, now)
                /\ task' = [task EXCEPT ![t] =
                       IF tr.origin = "rule" THEN NextRule(tr, "created")
                       ELSE \* trigger_manual_alert, line 390: return True
                            [tr EXCEPT !.pc = "done", !.result = "true"]]
                /\ cur' = t
                /\ UNCHANGED received
           ELSE LET cb == alert_subscribers[tr.ci]
                IN  /\ received' = [received EXCEPT ![cb] = Append(@, tr.aid)]
                    /\ UNCHANGED active_alerts
                    /\ IF IsCoroutine(cb)
                       THEN /\ task' = [task EXCEPT ![t].pc = "in_callback"]
                            /\ cur' = NoTask
                       ELSE /\ task' = [task EXCEPT ![t] =
                                   IF cb = "cb_raise"
                                   THEN SubscriberErrorHandler(tr)
                                   ELSE [tr EXCEPT !.ci = @ + 1]]
                            /\ cur' = t
    /\ UNCHANGED <<now, alerts, alert_subscribers, response, engine>>

\* The awaited coroutine callback finishes and the publishing task runs again
CallbackReturn(t) ==
    /\ cur = NoTask
    /\ task[t].pc = "in_callback"
    /\ task' = [task EXCEPT ![t] = [@ EXCEPT !.pc = "notify", !.ci = @ + 1]]
    /\ cur' = t
    /\ UNCHANGED <<now, active_alerts, alerts, alert_subscribers, received, response, engine>>

\* The batch is finished: the caller returns and gives up the loop
Return(t) ==
    /\ CanRun(t)
    /\ task[t].pc = "done"
    /\ task' = [task EXCEPT ![t] = IdleTask]
    /\ cur' = NoTask
    /\ UNCHANGED <<now, active_alerts, alerts, alert_subscribers, received, response, engine>>

\* trigger_manual_alert, lines 356-375 and 392-394: the INSERT; when it fails the
\* function returns False, otherwise it goes on to notify the subscribers
ManualTrigger(t, alert_create, inserted) ==
    /\ cur = NoTask
    /\ task[t].pc = "idle"
    /\ IF inserted
       THEN /\ Len(alerts) < MaxAlerts
            /\ alerts' = Append(alerts,
                   AlertRow(Len(alerts) + 1, alert_create.patient_id,
                            alert_create.alert_type, alert_create.severity,
                            alert_create.message, alert_create.triggered_by, now))
            /\ task' = [task EXCEPT ![t] =
                   [IdleTask EXCEPT !.pc = "notify", !.ci = 1,
                                    !.aid = Len(alerts) + 1, !.origin = "manual",
                                    !.snap = alert_subscribers]]
       ELSE /\ task' = [task EXCEPT ![t] = ManualInsertErrorHandler(IdleTask)]
            /\ UNCHANGED alerts
    /\ cur' = t
    /\ UNCHANGED <<now, active_alerts, alert_subscribers, received, response, engine>>

\* a publish of task tr is in progress
Publishing(tr) == tr.pc \in {"notify", "in_callback"}

\* subscribe_to_alerts, called while the loop is free
Subscribe(cb) ==
    /\ cur = NoTask
    /\ Len(alert_subscribers) < MaxSubscribers
    /\ alert_subscribers' = Append(alert_subscribers, cb)
    /\ task' = [t \in DOMAIN task |->
                  IF Publishing(task[t]) THEN [task[t] EXCEPT !.mutated = TRUE]
                  ELSE task[t]]
    /\ UNCHANGED <<now, active_alerts, alerts, received, cur, response, engine>>

\* list.remove(x): the list without the first occurrence of x
Remove(list, x) ==
    LET i == CHOOSE k \in 1..Len(list) :
                 list[k] = x /\ \A m \in 1..(k - 1) : list[m] # x
    IN  SubSeq(list, 1, i - 1) \o SubSeq(list, i + 1, Len(list))

\* unsubscribe_from_alerts, called while the loop is free
Unsubscribe(cb) ==
    /\ cur = NoTask
    /\ IF \E k \in 1..Len(alert_subscribers) : alert_subscribers[k] = cb
       THEN /\ alert_subscribers' = Remove(alert_subscribers, cb)
            /\ task' = [t \in DOMAIN task |->
                          IF Publishing(task[t])
                          THEN [task[t] EXCEPT !.mutated = TRUE]
                          ELSE task[t]]
       ELSE UNCHANGED <<alert_subscribers, task>>
    /\ UNCHANGED <<now, active_alerts, alerts, received, cur, response, engine>>

\* UpdateAlert with a DELETE in the place of the UPDATE
UpdateAlertDeletes(rows, alert_id, changes) ==
    SelectSeq(rows, LAMBDA r : r.id # alert_id)

\* the rows as UPDATE alerts SET ... WHERE id = alert_id leaves them
UpdateAlert(rows, alert_id, changes) ==
    [i \in 1..Len(rows) |->
        IF rows[i].id = alert_id
        THEN [f \in DOMAIN rows[i] |->
                 IF f \in DOMAIN changes THEN changes[f] ELSE rows[i][f]]
        ELSE rows[i]]

\* AlertExists with the existence check left out
AlertExistsUnchecked(rows, alert_id) == TRUE

\* SELECT id FROM alerts WHERE id = ? returns a row
AlertExists(rows, alert_id) == \E i \in 1..Len(rows) : rows[i].id = alert_id

\* acknowledge_alert: 404 when the id is absent, 500 when a statement fails,
\* otherwise the UPDATE and 200
Acknowledge(alert_id, acknowledged_by, dbok) ==
    /\ cur = NoTask
    /\ IF ~dbok
       THEN /\ response' = [op |-> "acknowledge", id |-> alert_id, code |-> 500]
            /\ UNCHANGED alerts
       ELSE IF ~AlertExists(alerts, alert_id)
       THEN /\ response' = [op |-> "acknowledge", id |-> alert_id, code |-> 404]
            /\ UNCHANGED alerts
       ELSE /\ alerts' = UpdateAlert(alerts, alert_id,
                            [status |-> ACKNOWLEDGED, acknowledged_at |-> now,
                             acknowledged_by |-> acknowledged_by])
            /\ response' = [op |-> "acknowledge", id |-> alert_id, code |-> 200]
    /\ UNCHANGED <<now, active_alerts, alert_subscribers, received, task, cur, engine>>

\* resolve_alert: 404 when the id is absent, 500 when a statement fails,
\* otherwise the UPDATE and 200
Resolve(alert_id, dbok) ==
    /\ cur = NoTask
    /\ IF ~dbok
       THEN /\ response' = [op |-> "resolve", id |-> alert_id, code |-> 500]
            /\ UNCHANGED alerts
       ELSE IF ~AlertExists(alerts, alert_id)
       THEN /\ response' = [op |-> "resolve", id |-> alert_id, code |-> 404]
            /\ UNCHANGED alerts
       ELSE /\ alerts' = UpdateAlert(alerts, alert_id,
                            [status |-> RESOLVED, resolved_at |-> now])
            /\ response' = [op |-> "resolve", id |-> alert_id, code |-> 200]
    /\ UNCHANGED <<now, active_alerts, alert_subscribers, received, task, cur, engine>>

\* get_alert_statistics: three SELECTs over table alerts and the sizes of the
\* rule list, the cooldown map and the subscriber list; the counts go to the
\* caller and nothing is written
GetStatistics ==
    /\ cur = NoTask
    /\ response' = [op |-> "statistics", id |-> 0, code |-> 200]
    /\ UNCHANGED <<now, active_alerts, alerts, alert_subscribers, received, task, cur, engine>>

\* The clock advances while the loop is free
Tick ==
    /\ cur = NoTask
    /\ now < MaxTicks * TickMinutes
    /\ now' = now + TickMinutes
    /\ UNCHANGED <<active_alerts, alerts, alert_subscribers, received, task, cur, response, engine>>

----------------------------------------------------------------------------
(* The monitoring loops: start_monitoring, stop_monitoring, the three pollers
   and the cleanup task *)

\* what cur holds while a background task owns the loop
MonitorTask == "monitor"

Pollers == {"risk", "vitals", "labs"}

\* the four coroutines start_monitoring turns into tasks
Kinds == Pollers \cup {"cleanup"}

\* timedelta(hours=24), in minutes
RetentionMinutes == 1440

\* A task as asyncio.create_task leaves it: scheduled, to run its loop test
\* when it gets the loop.  cancelled (history): stop_monitoring was called
\* since the task was created
NewMonitor == [pc |-> "sleeping", cancelled |-> FALSE]

\* AlreadyRunning with the test of the flag left out
AlreadyRunningIgnored(r) == FALSE

\* if self.running: return
AlreadyRunning(r) == r

\* start_monitoring up to its await of asyncio.gather: a task of session s and
\* kind k has the id <<s, k>>
StartMonitoring ==
    /\ cur = NoTask
    /\ lifecycle.starts < MaxStarts
    /\ IF AlreadyRunning(running)
       THEN /\ lifecycle' = [lifecycle EXCEPT !.op = "start_noop", !.starts = @ + 1]
            /\ UNCHANGED <<running, monitors>>
       ELSE LET s == lifecycle.sessions + 1
            IN  /\ running' = TRUE
                /\ monitors' = [m \in DOMAIN monitors \cup ({s} \X Kinds) |->
                                   IF m \in DOMAIN monitors THEN monitors[m]
                                   ELSE NewMonitor]
                /\ lifecycle' = [lifecycle EXCEPT !.op = "start", !.starts = @ + 1,
                                                  !.sessions = s]
    /\ UNCHANGED <<now, active_alerts, alerts, alert_subscribers, received, task, cur,
                   response>>

\* stop_monitoring
StopMonitoring ==
    /\ cur = NoTask
    /\ running' = FALSE
    /\ monitors' = [m \in DOMAIN monitors |-> [monitors[m] EXCEPT !.cancelled = TRUE]]
    /\ lifecycle' = [lifecycle EXCEPT !.op = "stop"]
    /\ UNCHANGED <<now, active_alerts, alerts, alert_subscribers, received, task, cur,
                   response>>

\* asyncio.sleep is over, or the new task gets the loop for the first time: the
\* test of while self.running
MonitorWake(m) ==
    /\ cur = NoTask
    /\ m \in DOMAIN monitors
    /\ monitors[m].pc = "sleeping"
    /\ IF running
       THEN /\ monitors' = [monitors EXCEPT ![m].pc = "woken"]
            /\ cur' = MonitorTask
       ELSE /\ monitors' = [monitors EXCEPT ![m].pc = "exited"]
            /\ cur' = NoTask
    /\ UNCHANGED <<now, active_alerts, alerts, alert_subscribers, received, task,
                   response, running, lifecycle>>

\* PollErrorHandler without the try inside the loop: the error ends the task
PollErrorPropagates(mon) == [mon EXCEPT !.pc = "exited"]

\* except Exception in a poller: the error is logged and the task sleeps its
\* interval
PollErrorHandler(mon) == [mon EXCEPT !.pc = "sleeping"]

\* The rule loop of _evaluate_alert_rules from rule ri on, for an event built
\* by a poller.  Such an event carries a datetime, so _create_alert fails in
\* json.dumps (or before it, in format), logs and returns, and line 260 marks
\* the cooldown: the loop changes the cooldown map and nothing else and never
\* suspends.
RECURSIVE EvaluateRules(_, _, _, _)
EvaluateRules(aa, data, ri, t) ==
    IF ri > Len(alert_rules) THEN aa
    ELSE LET rule == alert_rules[ri]
             key  == cooldown_key(rule.rule_id, data.patient_id)
             next == IF OnCooldown(aa, key, rule.cooldown_minutes, t) THEN aa
                     ELSE IF Condition(ri, data) = "true" THEN Mark(aa, key, t)
                     ELSE aa
         IN  EvaluateRules(next, data, ri + 1, t)

\* _evaluate_alert_rules for an event built by a poller
EvaluatePolled(aa, data, t) ==
    IF Truthy(Get(data, "patient_id", EmptyStr)) THEN EvaluateRules(aa, data, 1, t)
    ELSE aa

\* the for loop of a poller over the rows its query returned
RECURSIVE EvaluateBatch(_, _, _)
EvaluateBatch(aa, events, t) ==
    IF events = << >> THEN aa
    ELSE EvaluateBatch(EvaluatePolled(aa, Head(events), t), Tail(events), t)

\* the events a poller of kind k builds from the rows its query can return
PolledEvents(k, t) ==
    CASE k = "risk" -> {RiskEvent(r) : r \in RiskRows(t)}
      [] k = "vitals" -> {VitalEvent(r) : r \in VitalRows(t)}
      [] k = "labs" -> {LabEvent(r) : r \in LabRows(t)}

\* the results of a query of a poller of kind k: no row, or one
Rows(k, t) == {<< >>} \cup {<<e>> : e \in PolledEvents(k, t)}

\* One turn of a poller's loop: the query, the evaluation of its rows, and the
\* sleep; a failing query is caught and the task sleeps as well
MonitorPoll(m, dbok, events) ==
    /\ cur = MonitorTask
    /\ m \in DOMAIN monitors
    /\ m[2] \in Pollers
    /\ monitors[m].pc = "woken"
    /\ IF dbok
       THEN /\ \A i \in 1..Len(events) : JsonDumpsFails(events[i])
            /\ active_alerts' = EvaluateBatch(active_alerts, events, now)
            /\ monitors' = [monitors EXCEPT ![m].pc = "sleeping"]
            /\ lifecycle' = [lifecycle EXCEPT !.failed =
                                IF @ = m THEN << >> ELSE @]
       ELSE /\ monitors' = [monitors EXCEPT ![m] = PollErrorHandler(@)]
            /\ lifecycle' = [lifecycle EXCEPT !.failed = m]
            /\ UNCHANGED active_alerts
    /\ cur' = NoTask
    /\ UNCHANGED <<now, alerts, alert_subscribers, received, task, response, running>>

\* Expired with every entry that is not brand new taken for expired
ExpiredAtOnce(aa, t) == {k \in DOMAIN aa : t - aa[k] > 0}

\* expired_keys: current_time - timestamp > timedelta(hours=24)
Expired(aa, t) == {k \in DOMAIN aa : t - aa[k] > RetentionMinutes}

\* Purge with every entry deleted, whatever its age
PurgeAll(aa, t) == << >>

\* for key in expired_keys: del self.active_alerts[key]
Purge(aa, t) == [k \in DOMAIN aa \ Expired(aa, t) |-> aa[k]]

\* One turn of the loop of _cleanup_old_alerts
MonitorCleanup(m) ==
    /\ cur = MonitorTask
    /\ m \in DOMAIN monitors
    /\ m[2] = "cleanup"
    /\ monitors[m].pc = "woken"
    /\ active_alerts' = Purge(active_alerts, now)
    /\ lifecycle' = [lifecycle EXCEPT !.purged = Expired(active_alerts, now)]
    /\ monitors' = [monitors EXCEPT ![m].pc = "sleeping"]
    /\ cur' = NoTask
    /\ UNCHANGED <<now, alerts, alert_subscribers, received, task, response, running>>

\* asyncio.gather returns in the start_monitoring of session s once the four
\* tasks of the session have ended, and the finally clause clears the flag
GatherReturn(s) ==
    /\ cur = NoTask
    /\ s \in 1..lifecycle.sessions
    /\ s \notin lifecycle.gathered
    /\ \A k \in Kinds : monitors[<<s, k>>].pc = "exited"
    /\ running' = FALSE
    /\ lifecycle' = [lifecycle EXCEPT !.gathered = @ \cup {s}]
    /\ UNCHANGED <<now, active_alerts, alerts, alert_subscribers, received, task, cur,
                   response, monitors>>

\* A day passes while the loop is free
TickDay ==
    /\ cur = NoTask
    /\ now <= MaxTicks * TickMinutes
    /\ now' = now + RetentionMinutes
    /\ UNCHANGED <<active_alerts, alerts, alert_subscribers, received, task, cur,
                   response, engine>>

----------------------------------------------------------------------------
(* The evaluation engine: two callers, a fixed subscriber list *)

NoResponse == [op |-> "none", id |-> 0, code |-> 0]

\* No start or stop call yet.  op: the last call; starts: the start calls so
\* far; sessions: those of them that launched tasks; gathered: the sessions
\* whose start_monitoring has returned; failed: the task whose poll failed
\* last; purged: the cooldown keys the last cleanup removed
NoLifecycle ==
    [op |-> "none", starts |-> 0, sessions |-> 0, gathered |-> {},
     failed |-> << >>, purged |-> {}]

InitCommon ==
    /\ now = 0
    /\ active_alerts = << >>
    /\ alerts = << >>
    /\ received = [cb \in Callbacks |-> << >>]
    /\ cur = NoTask
    /\ response = NoResponse
    /\ running = FALSE
    /\ monitors = << >>
    /\ lifecycle = NoLifecycle

\* Events of the cooldown scenarios: one subject, one event per built-in rule,
\* one event that matches no rule and one polled vital-sign record
CooldownEvents(t) ==
    {VitalEvent(<<P1, 190, 95, 80, 97, t>>)} \cup
    { [patient_id |-> P1, risk_type |-> "readmission", risk_score |-> 85],
      [patient_id |-> P1, systolic_bp |-> 190],
      [patient_id |-> P1, systolic_bp |-> 150],
      [patient_id |-> P1, systolic_bp |-> 120, is_abnormal |-> TRUE,
       test_name |-> "glucose", value |-> 250, unit |-> "mg/dL"] }

\* One caller, so every evaluation finishes before the next starts; the
\* subscriber is a coroutine, so time may pass while an alert is delivered
Init ==
    /\ InitCommon
    /\ alert_subscribers = <<"cb_async">>
    /\ task = [t \in {"t1"} |-> IdleTask]

EvalNext(E) ==
    \/ \E t \in DOMAIN task, n \in 1..MaxBatch : Submit(t, n)
    \/ \E t \in DOMAIN task : \E data \in E : EvalEnter(t, data)
    \/ \E t \in DOMAIN task, inserted \in BOOLEAN : EvalRule(t, inserted)
    \/ \E t \in DOMAIN task : Notify(t)
    \/ \E t \in DOMAIN task : CallbackReturn(t)
    \/ \E t \in DOMAIN task : Return(t)

Next == EvalNext(CooldownEvents(now)) \/ Tick

Spec == Init /\ [][Next]_vars

\* Two callers whose evaluations interleave at the coroutine subscriber
InitConc ==
    /\ InitCommon
    /\ alert_subscribers = <<"cb_async">>
    /\ task = [t \in Tasks |-> IdleTask]

\* Events of the concurrent scenarios: one qualifying event per subject
ConcEvents ==
    { [patient_id |-> P1, systolic_bp |-> 190],
      [patient_id |-> P2, systolic_bp |-> 190] }

NextConc == EvalNext(ConcEvents) \/ Tick

SpecConc == InitConc /\ [][NextConc]_vars

\* Requests of the manual trigger
AlertCreates ==
    { [patient_id |-> P1, alert_type |-> "custom", severity |-> MEDIUM,
       message |-> "m1", triggered_by |-> <<"manual">>] }

\* The one event the hub scenarios evaluate
HubEvents == { [patient_id |-> P1, systolic_bp |-> 190] }

\* The notification hub: subscriptions come and go while alerts are published
\* by the manual trigger and by rule evaluation
InitHub ==
    /\ InitCommon
    /\ alert_subscribers = << >>
    /\ task = [t \in {"t1"} |-> IdleTask]

NextHub ==
    \/ \E cb \in Callbacks : Subscribe(cb)
    \/ \E cb \in Callbacks : Unsubscribe(cb)
    \/ \E t \in DOMAIN task, a \in AlertCreates, inserted \in BOOLEAN :
          ManualTrigger(t, a, inserted)
    \/ EvalNext(HubEvents)

SpecHub == InitHub /\ [][NextHub]_vars

\* The alert store: alerts are created by the manual trigger and acknowledged
\* and resolved through the routes
NextStore ==
    \/ \E t \in DOMAIN task, a \in AlertCreates, inserted \in BOOLEAN :
          ManualTrigger(t, a, inserted)
    \/ \E t \in DOMAIN task : Notify(t)
    \/ \E t \in DOMAIN task : Return(t)
    \/ \E id \in 1..(MaxAlerts + 1), by \in {"nurse", "doctor"}, dbok \in BOOLEAN :
          Acknowledge(id, by, dbok)
    \/ \E id \in 1..(MaxAlerts + 1), dbok \in BOOLEAN : Resolve(id, dbok)
    \/ Tick

SpecStore == InitHub /\ [][NextStore]_vars

\* The lifecycle of the monitoring loops, on a stopped clock and a storage
\* that answers every query
MonitorIds == (1..MaxStarts) \X Kinds

PollerIds == (1..MaxStarts) \X Pollers

NextEngine ==
    \/ StartMonitoring
    \/ StopMonitoring
    \/ \E m \in MonitorIds : MonitorWake(m)
    \/ \E m \in PollerIds :
          \E events \in Rows(m[2], now) : MonitorPoll(m, TRUE, events)
    \/ \E m \in MonitorIds : MonitorCleanup(m)
    \/ \E s \in 1..MaxStarts : GatherReturn(s)

SpecEngine == InitHub /\ [][NextEngine]_vars

\* One session: start_monitoring is called once
FirstSession == {1} \X Kinds

NextSession ==
    \/ lifecycle.starts = 0 /\ StartMonitoring
    \/ StopMonitoring
    \/ \E m \in FirstSession : MonitorWake(m)
    \/ \E m \in {1} \X Pollers, dbok \in BOOLEAN :
          \E events \in Rows(m[2], now) : MonitorPoll(m, dbok, events)
    \/ \E m \in FirstSession : MonitorCleanup(m)
    \/ GatherReturn(1)

\* The event loop runs its ready tasks first in, first out, and every sleep
\* ends: a task whose sleep is over gets the loop although other tasks take
\* it in between (strong fairness), and the task that holds the loop goes on
FairEngine ==
    /\ InitHub /\ [][NextSession]_vars
    /\ \A m \in FirstSession : SF_vars(MonitorWake(m))
    /\ \A m \in {1} \X Pollers :
          WF_vars(\E dbok \in BOOLEAN :
                     \E events \in Rows(m[2], now) : MonitorPoll(m, dbok, events))
    /\ \A m \in FirstSession : WF_vars(MonitorCleanup(m))

\* The cleanup task beside the pollers and a direct caller, over more than a
\* day
NextJanitor ==
    \/ lifecycle.starts = 0 /\ StartMonitoring
    \/ \E m \in FirstSession : MonitorWake(m)
    \/ \E m \in {1} \X Pollers :
          \E events \in Rows(m[2], now) : MonitorPoll(m, TRUE, events)
    \/ \E m \in FirstSession : MonitorCleanup(m)
    \/ \E t \in DOMAIN task : Submit(t, 1)
    \/ \E t \in DOMAIN task : \E data \in HubEvents : EvalEnter(t, data)
    \/ \E t \in DOMAIN task, inserted \in BOOLEAN : EvalRule(t, inserted)
    \/ \E t \in DOMAIN task : Notify(t)
    \/ \E t \in DOMAIN task : Return(t)
    \/ Tick
    \/ TickDay

SpecJanitor == InitHub /\ [][NextJanitor]_vars

\* Every event shape, on a stopped clock
NextRules == EvalNext(Events(now))

SpecRules == Init /\ [][NextRules]_vars

----------------------------------------------------------------------------
(* Vocabulary of the claims *)

\* the rows rule ri created for subject p
RuleAlerts(ri, p) ==
    {i \in 1..Len(alerts) :
        /\ alerts[i].triggered_by = TriggeredBy(alert_rules[ri].rule_id)
        /\ alerts[i].patient_id = p}

\* lastFiredAt(R, S) exists and is less than cooldown_minutes(R) ago
WithinCooldown(ri, p) ==
    LET key == <<alert_rules[ri].rule_id, ":">> \o p
    IN  /\ key \in DOMAIN active_alerts
        /\ now - active_alerts[key] < alert_rules[ri].cooldown_minutes

\* any two alerts of one (rule, subject) pair are a cooldown apart
OnePerWindow ==
    \A ri \in RuleIdx, p \in {P1, P2} :
        \A i, j \in RuleAlerts(ri, p) :
            i < j => alerts[j].created_at - alerts[i].created_at
                        >= alert_rules[ri].cooldown_minutes

\* task t evaluates its current rule against its current event in this step
RuleStep(t) == task[t].pc = "rule" /\ task'[t] # task[t]

\* the event of task t qualifies for the rule the task is at
Qualifies(t) == Condition(task[t].ri, task[t].data) = "true"

\* this step appended exactly one row, for rule ri and subject p, created now
AppendedFor(ri, p) ==
    /\ Len(alerts') = Len(alerts) + 1
    /\ SubSeq(alerts', 1, Len(alerts)) = alerts
    /\ alerts'[Len(alerts')].triggered_by = TriggeredBy(alert_rules[ri].rule_id)
    /\ alerts'[Len(alerts')].patient_id = p
    /\ alerts'[Len(alerts')].created_at = now

----------------------------------------------------------------------------
(* C1: two evaluations of qualifying events for one (rule, subject) pair that
   are in flight together do not both pass the cooldown check, so one alert is
   created for the pair in a cooldown window. *)
C1_CheckThenMarkAtomic == OnePerWindow

(* C2: qualifying events for (R, S) evaluated one after another: any two alerts
   of the pair are at least cooldown_minutes(R) apart; an evaluation inside the
   window creates nothing, and one outside it creates exactly one alert, for
   (R, S), or none when the creation of the alert fails. *)
C2_SequentialBurst ==
    /\ []OnePerWindow
    /\ [][\A t \in DOMAIN task :
            RuleStep(t) /\ Qualifies(t) =>
                LET ri == task[t].ri
                    p  == task[t].data.patient_id
                IN  /\ WithinCooldown(ri, p) =>
                        alerts' = alerts /\ received' = received
                    /\ ~WithinCooldown(ri, p) /\ task'[t].pc = "notify" =>
                        AppendedFor(ri, p)
                    /\ ~WithinCooldown(ri, p) /\ task'[t].pc # "notify" =>
                        /\ alerts' = alerts
                        /\ task'[t].outcome[ri] \in
                              {"render_error", "json_error", "storage_error"}]_vars

\* a second qualifying event was suppressed inside the window of the one alert
C2_Witness ==
    \E t \in DOMAIN task : \E ri \in RuleIdx :
        /\ ri <= Len(task[t].outcome)
        /\ task[t].outcome[ri] = "suppressed"
        /\ Condition(ri, task[t].data) = "true"
        /\ Cardinality(RuleAlerts(ri, task[t].data.patient_id)) = 1
        /\ \E i \in RuleAlerts(ri, task[t].data.patient_id) :
              now - alerts[i].created_at < alert_rules[ri].cooldown_minutes

(* C3: a qualifying event for (R, S) evaluated when now - lastFiredAt(R, S) >=
   cooldown_minutes(R) creates a new alert, unless the storage refuses the
   insert. *)
C3_CooldownExpiry ==
    [][\A t \in DOMAIN task :
        LET ri  == task[t].ri
            p   == task[t].data.patient_id
            key == <<alert_rules[ri].rule_id, ":">> \o p
        IN  /\ RuleStep(t)
            /\ Qualifies(t)
            /\ key \in DOMAIN active_alerts
            /\ now - active_alerts[key] >= alert_rules[ri].cooldown_minutes
            => \/ task'[t].pc = "notify" /\ AppendedFor(ri, p)
               \/ task'[t].outcome[ri] = "storage_error" /\ alerts' = alerts]_vars

\* the category of an event, told by the fields it carries
EventCategory(data) ==
    IF "risk_type" \in DOMAIN data THEN RISK_THRESHOLD
    ELSE IF "is_abnormal" \in DOMAIN data THEN LAB_ABNORMAL
    ELSE VITAL_CRITICAL

\* the rule at position ri of the current event of task t has been evaluated
Evaluated(t, ri) == ri <= Len(task[t].outcome)

(* C4: an event produces alerts of the rules of its own category only: a
   risk-prediction event only a risk_threshold alert, a lab-result event only
   a lab_abnormal alert. *)
C4_CategoryMatching ==
    \A t \in DOMAIN task : \A ri \in RuleIdx :
        Evaluated(t, ri) /\ task[t].outcome[ri] = "created" =>
            alert_rules[ri].alert_type = EventCategory(task[t].data)

(* C7: when a rule matches an event and its template names a field the event
   lacks, the alert is still persisted and broadcast. *)
C7_RenderingNotFatal ==
    \A t \in DOMAIN task : \A ri \in RuleIdx :
        /\ Evaluated(t, ri)
        /\ task[t].outcome[ri] # "suppressed"
        /\ Condition(ri, task[t].data) = "true"
        /\ RenderFails(ri, task[t].data)
        => task[t].outcome[ri] = "created"

(* C8: a rule whose predicate raises on an event creates no alert and no
   cooldown entry and refreshes none; the rules after it are evaluated against
   the same event and the events after it are evaluated too: every event of
   the batch that has a patient id gets all rules evaluated, and the batch
   ends only after its last event. *)
C8_RuleIsolation ==
    /\ [](\A t \in DOMAIN task :
            /\ task[t].pc \in {"enter", "done"} /\ task[t].ei > 0
                 /\ Truthy(Get(task[t].data, "patient_id", EmptyStr))
                 => Len(task[t].outcome) = Len(alert_rules)
            /\ task[t].pc = "done" => task[t].ei = task[t].n /\ ~task[t].raised)
    /\ [][\A t \in DOMAIN task :
            /\ RuleStep(t)
            /\ ~WithinCooldown(task[t].ri, task[t].data.patient_id)
            /\ Condition(task[t].ri, task[t].data) = "raise"
            => /\ alerts' = alerts
               /\ active_alerts' = active_alerts
               /\ received' = received
               /\ task[t].ri < Len(alert_rules) =>
                     /\ task'[t].pc = "rule"
                     /\ task'[t].ri = task[t].ri + 1
                     /\ task'[t].data = task[t].data]_vars

\* a predicate raised in the first event of a batch; in the second event a
\* predicate raised again and a later rule still created its alert
C8_Witness ==
    \E t \in DOMAIN task :
        /\ task[t].ei = 2
        /\ task[t].errs = 2
        /\ Len(task[t].outcome) = Len(alert_rules)
        /\ task[t].outcome[2] = "error"
        /\ task[t].outcome[3] = "created"

(* C5: once an alert is Resolved no acknowledge or resolve call changes its
   status. *)
C5_ForwardOnly ==
    [][\A i \in 1..Len(alerts) :
          alerts[i].status = RESOLVED => alerts'[i].status = RESOLVED]_vars

\* an id is stored
Stored(id) == \E i \in 1..Len(alerts) : alerts[i].id = id

(* C6: acknowledge and resolve of an id that no stored alert has answer 404
   and change no stored alert (the answer is 500, never success, when the
   storage itself fails). *)
C6_NotFound ==
    [][/\ response' # response
       /\ response'.op \in {"acknowledge", "resolve"}
       /\ ~Stored(response'.id)
       => /\ response'.code \in {404, 500}
          /\ alerts' = alerts]_vars

\* alerts are stored and a resolve of an id none of them has was answered 404
C6_Witness ==
    /\ Len(alerts) > 0
    /\ response.op = "resolve"
    /\ ~Stored(response.id)
    /\ response.code = 404

\* the number of times callback cb was invoked with alert id
Deliveries(cb, id) ==
    Cardinality({k \in 1..Len(received[cb]) : received[cb][k] = id})

\* the number of places callback cb has in list
Occurrences(list, cb) == Cardinality({k \in 1..Len(list) : list[k] = cb})

\* task t has finished a publish whose INSERT succeeded
Published(t) ==
    \/ task[t].pc = "done" /\ task[t].origin = "manual" /\ task[t].aid > 0
    \/ /\ task[t].origin = "rule"
       /\ task[t].pc \in {"rule", "enter", "done"}
       /\ task[t].outcome # << >>
       /\ task[t].outcome[Len(task[t].outcome)] = "created"

(* C9: a subscriber that raises stops nothing: the delivery loop goes on to
   the next subscriber, and when a publish during which the list was not
   changed has finished, every registered subscriber was invoked with the
   alert and the manual trigger returned True. *)
C9_SubscriberIsolation ==
    /\ [](\A t \in DOMAIN task :
            /\ ~task[t].raised
            /\ Published(t) /\ ~task[t].mutated =>
                 /\ \A cb \in Callbacks :
                       Deliveries(cb, task[t].aid) = Occurrences(alert_subscribers, cb)
                 /\ task[t].origin = "manual" => task[t].result = "true")
    /\ [][\A t \in DOMAIN task :
            /\ task[t].pc = "notify"
            /\ task[t].ci <= Len(alert_subscribers)
            /\ alert_subscribers[task[t].ci] = "cb_raise"
            /\ task'[t] # task[t]
            => /\ task'[t].pc = "notify"
               /\ task'[t].ci = task[t].ci + 1]_vars

\* a publish finished with the raising subscriber ahead of another one, and
\* both were invoked
C9_Witness ==
    \E t \in DOMAIN task :
        /\ Published(t)
        /\ ~task[t].mutated
        /\ alert_subscribers = <<"cb_raise", "cb_sync">>
        /\ Deliveries("cb_raise", task[t].aid) = 1
        /\ Deliveries("cb_sync", task[t].aid) = 1

(* C10: a publish delivers to the subscribers registered when it started: no
   callback is invoked with the alert more often than it was registered at
   the start of the publish. *)
C10_SnapshotOnPublish ==
    \A t \in DOMAIN task :
        Publishing(task[t]) \/ Published(t) =>
            \A cb \in Callbacks :
                Deliveries(cb, task[t].aid) <= Occurrences(task[t].snap, cb)

(* C11: when a publish has finished, every callback that was registered when
   it started and is registered when it ends was invoked with the alert
   exactly once, whatever was unsubscribed while the delivery loop ran. *)
C11_UnsubscribeDuringPublish ==
    \A t \in DOMAIN task :
        Published(t) =>
            \A cb \in Callbacks :
                /\ Occurrences(task[t].snap, cb) = 1
                /\ Occurrences(alert_subscribers, cb) = 1
                => Deliveries(cb, task[t].aid) = 1

\* task t takes a step of trigger_manual_alert: its entry or its delivery loop
ManualStep(t) ==
    /\ task'[t] # task[t]
    /\ task'[t].origin = "manual"
    /\ task[t].pc \in {"idle", "notify", "in_callback"}

\* a cooldown entry of subject p is in force
SubjectOnCooldown(p) == \E ri \in RuleIdx : WithinCooldown(ri, p)

(* C12: the manual trigger takes no notice of cooldowns: none of its steps
   changes the cooldown map; its entry stores exactly one alert, created now
   with the requested fields, whatever entries exist for the subject, unless
   the storage refuses the insert; and once its publish has finished on an
   unchanged subscriber list every registered subscriber was invoked. *)
C12_ManualBypassesCooldown ==
    /\ [][\A t \in DOMAIN task :
            ManualStep(t) =>
                /\ active_alerts' = active_alerts
                /\ task[t].pc = "idle" =>
                      \/ /\ task'[t].pc = "notify"
                         /\ Len(alerts') = Len(alerts) + 1
                         /\ SubSeq(alerts', 1, Len(alerts)) = alerts
                         /\ alerts'[Len(alerts')].triggered_by = <<"manual">>
                         /\ alerts'[Len(alerts')].created_at = now
                         /\ alerts'[Len(alerts')].id = task'[t].aid
                      \/ /\ task'[t].result = "false"
                         /\ alerts' = alerts]_vars
    /\ [](\A t \in DOMAIN task :
            /\ task[t].origin = "manual"
            /\ Published(t)
            /\ ~task[t].mutated
            => \A cb \in Callbacks :
                  Deliveries(cb, task[t].aid) >= Occurrences(alert_subscribers, cb))

\* the manual trigger stored and delivered an alert for a subject whose
\* critical_vitals cooldown is in force, and the entry is as it was marked
C12_Witness ==
    \E t \in DOMAIN task :
        /\ task[t].origin = "manual"
        /\ Published(t)
        /\ alerts[task[t].aid].patient_id = P1
        /\ SubjectOnCooldown(P1)
        /\ \E i \in 1..Len(alerts) :
              /\ alerts[i].triggered_by = TriggeredBy("critical_vitals")
              /\ active_alerts[cooldown_key("critical_vitals", P1)]
                    = alerts[i].created_at
        /\ Deliveries("cb_sync", task[t].aid) = 1

(* C13: an alert is broadcast only after it was stored: every alert id a
   subscriber was invoked with is the id of a stored row; a step whose INSERT
   fails stores nothing and invokes nobody; trigger_manual_alert returns True
   exactly when its INSERT succeeded and False otherwise. *)
C13_BroadcastAfterPersist ==
    /\ [](\A cb \in Callbacks : \A k \in 1..Len(received[cb]) :
            Stored(received[cb][k]))
    /\ [](\A t \in DOMAIN task :
            /\ Publishing(task[t]) => Stored(task[t].aid)
            /\ task[t].origin = "manual" /\ task[t].pc = "done" =>
                  /\ task[t].result \in {"true", "false"}
                  /\ task[t].result = "true" <=> Stored(task[t].aid))
    /\ [][\A t \in DOMAIN task :
            /\ task'[t] # task[t]
            /\ \/ task[t].pc = "idle" /\ task'[t].result = "false"
               \/ /\ task[t].pc = "rule"
                  /\ task'[t].outcome # << >>
                  /\ task'[t].outcome[Len(task'[t].outcome)] = "storage_error"
            => /\ alerts' = alerts
               /\ received' = received
               /\ ~Publishing(task'[t])]_vars

\* a manual trigger whose INSERT failed has returned False with subscribers
\* registered: nothing is stored and nobody was invoked
C13_Witness ==
    \E t \in DOMAIN task :
        /\ task[t].origin = "manual"
        /\ task[t].pc = "done"
        /\ task[t].result = "false"
        /\ Len(alert_subscribers) > 0
        /\ alerts = << >>
        /\ \A cb \in Callbacks : received[cb] = << >>

\* task m is live: it has not left its loop
Live(m) == monitors[m].pc # "exited"

\* task m polls: it has passed its loop test and runs the body of its loop
Polling(m) == monitors[m].pc = "woken"

(* C14: a poller whose query fails does not end: it sleeps, keeps its place in
   the session and leaves the flag and every other task as they were; and
   while the engine stays Running every poller and the cleanup task run the
   body of their loop again and again. *)
C14_PollerRetry ==
    /\ [][\A m \in DOMAIN monitors :
            /\ Polling(m)
            /\ lifecycle'.failed = m
            /\ monitors' # monitors
            => /\ monitors'[m].pc = "sleeping"
               /\ running' = running
               /\ \A o \in DOMAIN monitors \ {m} : monitors'[o] = monitors[o]]_vars
    /\ \A k \in Kinds :
          <>[]running => []<>(\E m \in DOMAIN monitors : m[2] = k /\ Polling(m))

\* a poller whose last poll failed polls again, the engine is Running and
\* the other tasks of its session are live
C14_Witness ==
    /\ running
    /\ lifecycle.failed # << >>
    /\ Polling(lifecycle.failed)
    /\ \A k \in Kinds : Live(<<lifecycle.failed[1], k>>)

(* C15: a start_monitoring call made while the engine is Running creates no
   task and leaves the flag, the cooldown map and the subscriber list as they
   were. *)
C15_StartWhileRunning ==
    [][lifecycle'.starts = lifecycle.starts + 1 /\ running =>
          /\ monitors' = monitors
          /\ running' = running
          /\ active_alerts' = active_alerts
          /\ alert_subscribers' = alert_subscribers]_vars

\* start_monitoring returned at once on a Running engine: the four tasks of
\* the one session are all there is
C15_Witness ==
    /\ lifecycle.op = "start_noop"
    /\ running
    /\ DOMAIN monitors = {1} \X Kinds
    /\ \A m \in DOMAIN monitors : Live(m)

(* C16: a task that was launched before a stop_monitoring call leaves its loop
   at its next wake-up: it never polls again, whatever was called since. *)
C16_StoppedTasksExit ==
    \A m \in DOMAIN monitors : monitors[m].cancelled => ~Polling(m)

(* C17: when stop_monitoring has returned and the engine is Stopped, no
   poller and no cleanup task is live. *)
C17_StoppedMeansAcknowledged ==
    lifecycle.op = "stop" /\ ~running => \A m \in DOMAIN monitors : ~Live(m)

\* the cleanup task m finishes a turn of its loop in this step
CleanupStep(m) ==
    /\ m[2] = "cleanup"
    /\ Polling(m)
    /\ monitors'[m].pc = "sleeping"

\* the answer of the cooldown check for key k and rule ri at time t on map aa
Blocks(aa, k, ri, t) ==
    k \in DOMAIN aa /\ t - aa[k] < alert_rules[ri].cooldown_minutes

(* C18: a run of the cleanup removes exactly the entries that are more than 24
   hours old and changes no other; every removed entry is past the cooldown
   of every rule, so the cooldown check answers the same with the entry and
   without it, now and at every later time (up to the longest cooldown, 120
   minutes, after which no entry of today blocks anything); the run creates
   and delivers nothing. *)
C18_PurgeIsExpiry ==
    [][\A m \in DOMAIN monitors :
          CleanupStep(m) =>
              /\ DOMAIN active_alerts' =
                    {k \in DOMAIN active_alerts : now - active_alerts[k] <= 24 * 60}
              /\ \A k \in DOMAIN active_alerts' : active_alerts'[k] = active_alerts[k]
              /\ \A k \in DOMAIN active_alerts \ DOMAIN active_alerts' :
                    \A ri \in RuleIdx :
                        now - active_alerts[k] >= alert_rules[ri].cooldown_minutes
              /\ \A k \in DOMAIN active_alerts : \A ri \in RuleIdx :
                    \A t \in now..(now + 120) :
                        Blocks(active_alerts', k, ri, t) = Blocks(active_alerts, k, ri, t)
              /\ alerts' = alerts
              /\ received' = received]_vars

\* the last cleanup removed the entry of a rule and a subject, an older entry
\* was kept, and the next qualifying event of the pair has created its alert
C18_Witness ==
    /\ Len(alerts) = 2
    /\ alerts[1].triggered_by = TriggeredBy("critical_vitals")
    /\ alerts[2].triggered_by = TriggeredBy("critical_vitals")
    /\ alerts[2].patient_id = alerts[1].patient_id
    /\ cooldown_key("critical_vitals", alerts[1].patient_id) \in lifecycle.purged
    /\ alerts[2].created_at - alerts[1].created_at > 24 * 60

(* C19: acknowledged_at and acknowledged_by, once set, and resolved_at, once
   set, are never overwritten by a later acknowledge or resolve call. *)
C19_SetOnce ==
    [][\A i \in 1..Len(alerts) :
          /\ alerts[i].acknowledged_at # None =>
                /\ alerts'[i].acknowledged_at = alerts[i].acknowledged_at
                /\ alerts'[i].acknowledged_by = alerts[i].acknowledged_by
          /\ alerts[i].resolved_at # None =>
                alerts'[i].resolved_at = alerts[i].resolved_at]_vars

\* the event is a vital-sign record with a systolic pressure
VitalSigns(data) ==
    /\ EventCategory(data) = VITAL_CRITICAL
    /\ Get(data, "systolic_bp", None) # None

\* no cooldown entry exists for subject p
NoCooldown(p) ==
    \A ri \in RuleIdx : cooldown_key(alert_rules[ri].rule_id, p) \notin DOMAIN active_alerts

(* C20: for a subject without cooldown entries, the evaluation of rule
   critical_vitals against a vital-sign event with systolic pressure above 180
   creates an alert of severity critical (unless the storage refuses the
   insert), and no rule creates an alert for a vital-sign event with systolic
   pressure in [90, 180], heart rate at most 120 and oxygen saturation at
   least 90 or absent. *)
C20_VitalThresholds ==
    [][\A t \in DOMAIN task :
          RuleStep(t) /\ VitalSigns(task[t].data) /\ NoCooldown(task[t].data.patient_id) =>
              LET data == task[t].data
                  ri   == task[t].ri
              IN  /\ alert_rules[ri].rule_id = "critical_vitals" /\ data.systolic_bp > 180 =>
                        \/ /\ task'[t].pc = "notify"
                           /\ AppendedFor(ri, data.patient_id)
                           /\ alerts'[Len(alerts')].severity = CRITICAL
                        \/ /\ task'[t].outcome[ri] = "storage_error"
                           /\ alerts' = alerts
                  /\ /\ data.systolic_bp \in 90..180
                     /\ Get(data, "heart_rate", 0) <= 120
                     /\ Get(data, "oxygen_saturation", 100) >= 90
                     => alerts' = alerts /\ task'[t].pc # "notify"]_vars

\* the outcomes of a rule whose alert was not persisted
CreationErrors == {"render_error", "json_error", "storage_error"}

(* C21: a cooldown entry is created or refreshed only when an alert was
   persisted: the evaluation of a rule whose alert could not be created (the
   rendering or the insert failed) leaves the cooldown map as it was. *)
C21_CooldownOnlyWhenPersisted ==
    [][\A t \in DOMAIN task :
          RuleStep(t) /\ task'[t].outcome # task[t].outcome
                      /\ task'[t].outcome[task[t].ri] \in CreationErrors
              => active_alerts' = active_alerts]_vars

----------------------------------------------------------------------------
(* Records that stay in storage and are returned by one poll after another *)

\* timedelta(minutes=...) of the query of each poller
LookbackMinutes(k) ==
    CASE k = "risk" -> 5
      [] k = "vitals" -> 10
      [] k = "labs" -> 30

\* WHERE <time column> >= utcnow() - timedelta(minutes=...): the time column is
\* the last one of the row
Returned(row, k, t) == row[Len(row)] >= t - LookbackMinutes(k)

\* the result of the query of the poller of kind k at time t over the rows of a
\* table, as the events the poller builds from it
RECURSIVE RecentEvents(_, _, _)
RecentEvents(table, k, t) ==
    IF table = << >> THEN << >>
    ELSE LET rest == RecentEvents(Tail(table), k, t)
         IN  IF Returned(Head(table), k, t)
             THEN <<(CASE k = "risk" -> RiskEvent(Head(table))
                       [] k = "vitals" -> VitalEvent(Head(table))
                       [] k = "labs" -> LabEvent(Head(table)))>> \o rest
             ELSE rest

\* Table lab_results: add_lab_results stores the timestamp the client sent.
\* The record of P1 is stamped one tick ahead of the clock the service starts
\* with, the record of P2 with that clock
StoredLabs ==
    << <<P1, "glucose", 250, "mg/dL", TRUE, TickMinutes>>,
       <<P2, "glucose", 250, "mg/dL", TRUE, 0>> >>

\* the tables of the three pollers
Table(k) == IF k = "labs" THEN StoredLabs ELSE << >>

\* One session of the pollers over the stored records, while time passes
NextRedelivery ==
    \/ lifecycle.starts = 0 /\ StartMonitoring
    \/ StopMonitoring
    \/ \E m \in FirstSession : MonitorWake(m)
    \/ \E m \in {1} \X Pollers :
          MonitorPoll(m, TRUE, RecentEvents(Table(m[2]), m[2], now))
    \/ \E m \in FirstSession : MonitorCleanup(m)
    \/ GatherReturn(1)
    \/ Tick

SpecRedelivery == InitHub /\ [][NextRedelivery]_vars

(* C22: re-delivery is idempotent: a stored record that several polls return
   fires each built-in rule that matches it at most once over these polls;
   no rule passes its cooldown check for the record at a poll when it already
   fired for the record at an earlier poll that returned it. *)
C22_RedeliveryIdempotent ==
    [][\A i \in 1..Len(StoredLabs) : \A ri \in RuleIdx :
          LET row == StoredLabs[i]
              key == cooldown_key(alert_rules[ri].rule_id, row[1])
          IN  /\ key \in DOMAIN active_alerts
              /\ key \in DOMAIN active_alerts'
              /\ active_alerts'[key] # active_alerts[key]
              => ~(Returned(row, "labs", active_alerts[key]) /\ Returned(row, "labs", now))]_vars

----------------------------------------------------------------------------
(* The cleanup task beside evaluations that are suspended in a coroutine
   subscriber, over more than a day *)
NextRace ==
    \/ NextJanitor
    \/ \E t \in DOMAIN task : CallbackReturn(t)

SpecRace == Init /\ [][NextRace]_vars

\* the cooldown key of the rule task t is at and of the subject of its event
TaskKey(t) ==
    cooldown_key(alert_rules[task[t].ri].rule_id, task[t].data.patient_id)

\* this step ends the evaluation of the current rule of task t with a mark
MarkCompleted(t) ==
    /\ task[t].pc \in {"rule", "notify"}
    /\ task[t].origin # "manual"
    /\ Len(task'[t].outcome) = Len(task[t].outcome) + 1
    /\ task'[t].outcome[task[t].ri] \in CreationErrors \cup {"created"}

(* C23: under every interleaving of the cleanup task with evaluations that
   mark a pair, an entry that leaves the cooldown map is older than the 24
   hours of retention, an entry that is set or changed gets the current time,
   and when the mark of (R, S) has completed the entry of (R, S) is present
   with the time of the mark. *)
C23_PurgeNeverRacesRefresh ==
    /\ [][\A k \in DOMAIN active_alerts :
             k \notin DOMAIN active_alerts' =>
                 now - active_alerts[k] > RetentionMinutes]_vars
    /\ [][\A k \in DOMAIN active_alerts' :
             k \notin DOMAIN active_alerts \/ active_alerts'[k] # active_alerts[k] =>
                 active_alerts'[k] = now]_vars
    /\ [][\A t \in DOMAIN task :
             MarkCompleted(t) =>
                 /\ TaskKey(t) \in DOMAIN active_alerts'
                 /\ active_alerts'[TaskKey(t)] = now]_vars

\* the cleanup task removed the entry of (R, S) while the alert of an
\* evaluation of (R, S) was being delivered, and the mark that followed put
\* the entry back with the current time
C23_Witness ==
    \E t \in DOMAIN task :
        /\ task[t].pc = "done"
        /\ task[t].outcome[2] = "created"
        /\ alerts[task[t].aid].created_at + RetentionMinutes < now
        /\ cooldown_key("critical_vitals", P1) \in lifecycle.purged
        /\ cooldown_key("critical_vitals", P1) \in DOMAIN active_alerts
        /\ active_alerts[cooldown_key("critical_vitals", P1)] = now

(* C24: the evaluation of rule R for subject S while (R, S) is on cooldown
   changes nothing: no alert is persisted, nothing is delivered to a
   subscriber, and the cooldown map, the entry of (R, S) included, stays as
   it was. *)
C24_SuppressionChangesNothing ==
    [][\A t \in DOMAIN task :
          RuleStep(t) /\ WithinCooldown(task[t].ri, task[t].data.patient_id) =>
              /\ task'[t].outcome[task[t].ri] = "suppressed"
              /\ alerts' = alerts
              /\ received' = received
              /\ active_alerts' = active_alerts
              /\ alert_subscribers' = alert_subscribers]_vars

\* a qualifying event was suppressed and the entry of its pair still holds the
\* earlier time
C24_Witness ==
    \E t \in DOMAIN task : \E ri \in RuleIdx :
        /\ Evaluated(t, ri)
        /\ task[t].outcome[ri] = "suppressed"
        /\ Condition(ri, task[t].data) = "true"
        /\ WithinCooldown(ri, task[t].data.patient_id)
        /\ active_alerts[cooldown_key(alert_rules[ri].rule_id,
                                      task[t].data.patient_id)] < now

----------------------------------------------------------------------------
(* The alert table under everything that touches it: rule evaluation, the
   manual trigger, the publish, the routes, the monitoring tasks and the
   statistics, on a stopped clock *)
InitLedger ==
    /\ InitCommon
    /\ alert_subscribers = <<"cb_sync">>
    /\ task = [t \in {"t1"} |-> IdleTask]

NextLedger ==
    \/ \E t \in DOMAIN task : Submit(t, 1)
    \/ \E t \in DOMAIN task : \E data \in HubEvents : EvalEnter(t, data)
    \/ \E t \in DOMAIN task, inserted \in BOOLEAN : EvalRule(t, inserted)
    \/ \E t \in DOMAIN task, a \in AlertCreates : ManualTrigger(t, a, TRUE)
    \/ \E t \in DOMAIN task : Notify(t)
    \/ \E t \in DOMAIN task : Return(t)
    \/ \E id \in 1..MaxAlerts : Acknowledge(id, "nurse", TRUE)
    \/ \E id \in 1..MaxAlerts : Resolve(id, TRUE)
    \/ GetStatistics
    \/ lifecycle.starts = 0 /\ StartMonitoring
    \/ \E m \in FirstSession : MonitorWake(m)
    \/ \E m \in {1} \X Pollers :
          \E events \in Rows(m[2], now) : MonitorPoll(m, TRUE, events)
    \/ \E m \in FirstSession : MonitorCleanup(m)

SpecLedger == InitLedger /\ [][NextLedger]_vars

\* the ids of the stored alerts
StoredIds(rows) == {rows[i].id : i \in 1..Len(rows)}

(* C25: alerts are never deleted and are changed by acknowledge and resolve
   only: the set of stored ids only grows, every stored alert keeps its place
   and its id, and a step that changes a field of a stored alert is a
   successful acknowledge or resolve of that alert; no step of a rule
   evaluation, of the manual trigger, of a publish, of a monitoring task or
   of the statistics changes a stored alert. *)
C25_AlertsOnlyGrow ==
    [][/\ StoredIds(alerts) \subseteq StoredIds(alerts')
       /\ Len(alerts') >= Len(alerts)
       /\ \A i \in 1..Len(alerts) :
             /\ alerts'[i].id = alerts[i].id
             /\ alerts'[i] # alerts[i] =>
                   /\ response'.op \in {"acknowledge", "resolve"}
                   /\ response'.id = alerts[i].id
                   /\ response'.code = 200
                   /\ task' = task
                   /\ monitors' = monitors
                   /\ active_alerts' = active_alerts]_vars

\* an acknowledged alert and a later alert are stored, rules have fired, the
\* monitoring tasks run and the statistics were read
C25_Witness ==
    /\ Len(alerts) = 2
    /\ alerts[1].status = ACKNOWLEDGED
    /\ alerts[1].acknowledged_by = "nurse"
    /\ alerts[2].status = ACTIVE
    /\ response.op = "statistics"
    /\ <<1, "cleanup">> \in DOMAIN monitors
    /\ monitors[<<1, "cleanup">>].pc = "sleeping"
    /\ active_alerts # << >>

(* C26: once a start call has made the engine running, the running flag
   becomes false only through a later stop call: the return of an earlier
   start call that was stopped long ago does not switch off the session that
   was started after it. *)
C26_OnlyStopSwitchesOff ==
    [][running /\ ~running' => lifecycle'.op = "stop"]_vars

\* the events the vital-sign poller builds from rows whose systolic pressure
\* is NULL and whose other readings are normal or NULL
NullSystolicEvents(t) ==
    {VitalEvent(r) : r \in {v \in VitalRows(t) :
                               /\ v[2] = None
                               /\ v[4] = None \/ v[4] <= 120
                               /\ v[5] = None \/ v[5] >= 90}}

(* C27: a polled vital-sign record whose systolic pressure is NULL and whose
   other readings are normal or NULL creates no alert: no step of the
   evaluation of its event stores an alert or starts a publish. *)
C27_NullSystolicNoAlert ==
    [][\A t \in DOMAIN task :
          RuleStep(t) /\ task[t].data \in NullSystolicEvents(now) =>
              /\ alerts' = alerts
              /\ task'[t].pc # "notify"]_vars

\* the event of such a record went through rule critical_vitals, which took
\* the systolic pressure for 0 and matched, and the creation of the alert
\* failed in json.dumps
C27_Witness ==
    \E t \in DOMAIN task :
        /\ task[t].data \in NullSystolicEvents(now)
        /\ Evaluated(t, 2)
        /\ alert_rules[2].rule_id = "critical_vitals"
        /\ task[t].outcome[2] = "json_error"
        /\ RuleAlerts(2, task[t].data.patient_id) = {}

(* C28: after unsubscribe(cb) has returned, cb receives no alert until it is
   subscribed again, however often it was subscribed before: a call that
   takes cb off the subscriber list leaves no entry of cb on the list that a
   later publish would deliver to.  (A call for a callback that is not
   registered leaves the list as it is.) *)
C28_UnsubscribeRemovesAll ==
    [][\A cb \in Callbacks :
          Occurrences(alert_subscribers', cb) < Occurrences(alert_subscribers, cb) =>
              Occurrences(alert_subscribers', cb) = 0]_vars

----------------------------------------------------------------------------
(* The route POST /alerts *)

\* the subjects table patients holds
Patients == {P1, P2}

\* SELECT * FROM alerts WHERE patient_id = ? AND created_at = (SELECT
\* MAX(created_at) FROM alerts WHERE patient_id = ?): the positions of the
\* rows the read-back returns
LatestOf(rows, patient_id) ==
    {i \in 1..Len(rows) :
        /\ rows[i].patient_id = patient_id
        /\ \A j \in 1..Len(rows) :
              rows[j].patient_id = patient_id =>
                  rows[j].created_at <= rows[i].created_at}

\* create_alert: 404 for an unknown patient, 500 when a statement fails;
\* otherwise the INSERT with created_at = utcnow(), the read-back and 201 with
\* the first row of the read-back.  The query has no ORDER BY, so which of
\* several rows comes first is the storage's choice.  No await of the handler
\* suspends, so the handler is one step.
CreateAlert(alert_create, dbok) ==
    /\ cur = NoTask
    /\ IF alert_create.patient_id \notin Patients
       THEN /\ response' = [op |-> "create", id |-> 0, code |-> 404]
            /\ UNCHANGED alerts
       ELSE IF ~dbok
       THEN /\ response' = [op |-> "create", id |-> 0, code |-> 500]
            /\ UNCHANGED alerts
       ELSE /\ Len(alerts) < MaxAlerts
            /\ alerts' = Append(alerts,
                   AlertRow(Len(alerts) + 1, alert_create.patient_id,
                            alert_create.alert_type, alert_create.severity,
                            alert_create.message, alert_create.triggered_by, now))
            /\ \E i \in LatestOf(alerts', alert_create.patient_id) :
                  response' = [op |-> "create", id |-> alerts'[i].id, code |-> 201,
                               alert |-> alerts'[i]]
    /\ UNCHANGED <<now, active_alerts, alert_subscribers, received, task, cur, engine>>

\* Requests of the route: two subjects that exist and one that does not
AlertPosts ==
    { [patient_id |-> p, alert_type |-> "custom", severity |-> HIGH,
       message |-> "m2", triggered_by |-> <<"api">>] : p \in {P1, P2, <<"P9">>} }

\* The route beside the other writers of table alerts, while time passes
NextCreate ==
    \/ \E a \in AlertPosts, dbok \in BOOLEAN : CreateAlert(a, dbok)
    \/ \E t \in DOMAIN task, a \in AlertCreates : ManualTrigger(t, a, TRUE)
    \/ \E t \in DOMAIN task : Submit(t, 1)
    \/ \E t \in DOMAIN task : \E data \in HubEvents : EvalEnter(t, data)
    \/ \E t \in DOMAIN task, inserted \in BOOLEAN : EvalRule(t, inserted)
    \/ \E t \in DOMAIN task : Notify(t)
    \/ \E t \in DOMAIN task : Return(t)
    \/ Tick

SpecCreate == InitHub /\ [][NextCreate]_vars

(* C29: POST /alerts answers with the alert that this very call inserted: the
   step of the route that stores a row answers 201 with that row (subject,
   alert type, severity, message and triggered_by of the request, status
   active), whatever other alerts of the subject are stored. *)
C29_ReturnsOwnAlert ==
    [][Len(alerts') = Len(alerts) + 1 /\ task' = task =>
          /\ response'.op = "create"
          /\ response'.code = 201
          /\ response'.alert = alerts'[Len(alerts')]]_vars

\* the ids of the built-in rules
RuleIds == {alert_rules[ri].rule_id : ri \in RuleIdx}

\* subject ids, among them the empty one, ids with a colon and ids that read
\* like a rule id or like a key (a text is the sequence of its colons and of
\* the colon-free pieces between them, so equal texts are equal sequences)
SubjectIds ==
    {P1, P2, EmptyStr, <<":">>, <<":", "P1">>, <<"P1", ":">>,
     <<"critical_vitals">>, <<"critical_vitals", ":", "P1">>}

\* the text f"{rule_id}:{patient_id}" of pair (rule_id, p)
PairKey(rule_id, p) == <<rule_id, ":">> \o p

\* the cooldown map is the same before and after the step, but for the entry
\* of pair (rule_id, p)
OnlyEntryOf(rule_id, p) ==
    \A k \in (DOMAIN active_alerts \cup DOMAIN active_alerts') \ {PairKey(rule_id, p)} :
        /\ k \in DOMAIN active_alerts
        /\ k \in DOMAIN active_alerts'
        /\ active_alerts'[k] = active_alerts[k]

\* the key of a pair is the key of no other pair
KeysDistinct ==
    \A r1, r2 \in RuleIds : \A s1, s2 \in SubjectIds :
        cooldown_key(r1, s1) = cooldown_key(r2, s2) => r1 = r2 /\ s1 = s2

(* C30: cooldowns are independent per (rule, subject): a step of the
   evaluation of rule R for subject S creates or changes no entry of the
   cooldown map but the one of (R, S), the entry it sets is the one of (R, S),
   and R is suppressed for S only when the entry of (R, S) itself is inside
   its window; the key of a pair is the key of no other pair, for the
   built-in rule ids and any subject ids. *)
C30_CooldownsIndependent ==
    [][/\ KeysDistinct
       /\ \A t \in DOMAIN task :
             task[t].pc \in {"rule", "notify", "in_callback"} /\ task'[t] # task[t] =>
                 LET rid == alert_rules[task[t].ri].rule_id
                     p   == task[t].data.patient_id
                 IN  /\ OnlyEntryOf(rid, p)
                     /\ MarkCompleted(t) =>
                           /\ PairKey(rid, p) \in DOMAIN active_alerts'
                           /\ active_alerts'[PairKey(rid, p)] = now
                     /\ /\ task[t].pc = "rule"
                        /\ Len(task'[t].outcome) = Len(task[t].outcome) + 1
                        /\ task'[t].outcome[task[t].ri] = "suppressed"
                        => WithinCooldown(task[t].ri, p)]_vars

\* the rule fired for one subject and, inside the window of that pair, for the
\* other subject as well: each pair has its own entry
C30_Witness ==
    /\ PairKey("critical_vitals", P1) \in DOMAIN active_alerts
    /\ PairKey("critical_vitals", P2) \in DOMAIN active_alerts
    /\ WithinCooldown(2, P1)
    /\ Cardinality(RuleAlerts(2, P1)) = 1
    /\ Cardinality(RuleAlerts(2, P2)) = 1
    /\ \E i \in RuleAlerts(2, P1) : \E j \in RuleAlerts(2, P2) : i < j

====
